---- MODULE Spec2Model ----
(***************************************************************************)
(* The syntax highlighter of src/components/content/code-block.tsx:        *)
(* tokenizeJS, tokenizeHTML, tokenizeJSON, the tokenize dispatcher and the *)
(* line-splitting memo of CodeBlock.                                       *)
(*                                                                         *)
(* A string is a sequence of one-character strings; a Token is a record    *)
(* [type, content].  A regular expression anchored with ^ is an operator   *)
(* on the remaining input that returns the length of match[0], or -1 when  *)
(* String.prototype.match returns null.                                    *)
(***************************************************************************)
EXTENDS Integers, Sequences, FiniteSets, TLC

VARIABLES code, language, filename, showLineNumbers,
          pc, tokens, remaining, lastWasColon, lines, other, view, site

vars == <<code, language, filename, showLineNumbers,
          pc, tokens, remaining, lastWasColon, lines, other, view, site>>

----------------------------------------------------------------------------
(* String primitives of the JavaScript runtime used by the source.         *)

Min(S) == CHOOSE x \in S : \A y \in S : x <= y

\* s[i-1] in JavaScript terms; "" stands for undefined (past the end).
At(s, i) == IF i \in 1..Len(s) THEN s[i] ELSE ""

\* s.slice(n)
Slice(s, n) == SubSeq(s, n + 1, Len(s))

\* s.slice(0, n)
SliceTo(s, n) == SubSeq(s, 1, n)

\* s.startsWith(p)
StartsWith(s, p) == Len(s) >= Len(p) /\ SubSeq(s, 1, Len(p)) = p

\* 1-based index of the first occurrence of p in s at or after position i,
\* 0 when there is none (s.indexOf(p, i-1) + 1).
IndexOfFrom(s, p, i) ==
  LET hits == {j \in i..(Len(s) - Len(p) + 1) : SubSeq(s, j, j + Len(p) - 1) = p}
  IN IF hits = {} THEN 0 ELSE Min(hits)

\* First position at or after i whose character is in S, Len(s)+1 if none.
FirstIn(s, i, S) == Min({j \in i..(Len(s) + 1) : j = Len(s) + 1 \/ s[j] \in S})

\* First position at or after i whose character is not in S, Len(s)+1 if none.
FirstNotIn(s, i, S) == Min({j \in i..(Len(s) + 1) : j = Len(s) + 1 \/ s[j] \notin S})

----------------------------------------------------------------------------
(* Character classes of the regular expressions.                           *)

Digit == {"0", "1", "2", "3", "4", "5", "6", "7", "8", "9"}

LowerSeq == <<"a", "b", "c", "d", "e", "f", "g", "h", "i", "j", "k", "l", "m",
              "n", "o", "p", "q", "r", "s", "t", "u", "v", "w", "x", "y", "z">>

UpperSeq == <<"A", "B", "C", "D", "E", "F", "G", "H", "I", "J", "K", "L", "M",
              "N", "O", "P", "Q", "R", "S", "T", "U", "V", "W", "X", "Y", "Z">>

\* [a-zA-Z]
Letter == {LowerSeq[i] : i \in DOMAIN LowerSeq} \cup {UpperSeq[i] : i \in DOMAIN UpperSeq}

\* Case folding of the i flag.
ToLower(c) ==
  IF \E i \in DOMAIN UpperSeq : UpperSeq[i] = c
  THEN LowerSeq[CHOOSE i \in DOMAIN UpperSeq : UpperSeq[i] = c]
  ELSE c

\* \s (the members a TLA+ string can write)
Whitespace == {" ", "\t", "\n", "\r", "\f"}

\* The back-quote character (a TLA+ string cannot hold it, so it is named).
Backquote == "backquote"

\* the characters . does not match
LineTerminator == {"\n", "\r"}

\* [0-9a-fA-F]
HexDigit == Digit \cup {"a", "b", "c", "d", "e", "f", "A", "B", "C", "D", "E", "F"}

\* [a-zA-Z_$] and [a-zA-Z0-9_$]
IdentStart == Letter \cup {"_", "$"}
IdentPart == IdentStart \cup Digit

----------------------------------------------------------------------------
(* Regular expressions shared by the lexers.                               *)

\* ^q(?:[^q\\]|\\.)*q : position of the closing delimiter, scanning from i;
\* 0 when the literal is not terminated.
RECURSIVE ScanQuoted(_, _, _)
ScanQuoted(r, i, q) ==
  IF i > Len(r) THEN 0
  ELSE IF r[i] = q THEN i
  ELSE IF r[i] = "\\"
       THEN IF i + 1 <= Len(r) /\ r[i + 1] \notin LineTerminator
            THEN ScanQuoted(r, i + 2, q)
            ELSE 0
  ELSE ScanQuoted(r, i + 1, q)

reQuoted(r, q) ==
  IF At(r, 1) = q /\ ScanQuoted(r, 2, q) > 0 THEN ScanQuoted(r, 2, q) ELSE -1

\* \d+\.?\d*(?:[eE][+-]?\d+)? starting at position i: the position after the
\* match, 0 when \d+ does not match at i.
DecimalEnd(r, i) ==
  LET d1 == FirstNotIn(r, i, Digit)
      p  == IF At(r, d1) = "." THEN d1 + 1 ELSE d1
      d2 == FirstNotIn(r, p, Digit)
      s  == IF At(r, d2 + 1) \in {"+", "-"} THEN d2 + 2 ELSE d2 + 1
      d3 == FirstNotIn(r, s, Digit)
  IN IF d1 = i THEN 0
     ELSE IF At(r, d2) \in {"e", "E"} /\ s <= Len(r) /\ d3 > s THEN d3
     ELSE d2

\* Variant of reWhitespace with the pattern ^\s* (it matches the empty string).
reWhitespaceStar(r) == FirstNotIn(r, 1, Whitespace) - 1

\* ^\s+
reWhitespace(r) ==
  IF At(r, 1) \in Whitespace THEN FirstNotIn(r, 1, Whitespace) - 1 ELSE -1

\* Index of the first pattern of the ordered list ps that matched, 0 if none
\* (the for loop over patterns with its break).
FirstMatch(ps) ==
  IF \E k \in DOMAIN ps : ps[k].n >= 0
  THEN Min({k \in DOMAIN ps : ps[k].n >= 0})
  ELSE 0

Token(type, content) == [type |-> type, content |-> content]

----------------------------------------------------------------------------
(* tokenizeJS                                                              *)

keywords ==
  { <<"c","o","n","s","t">>, <<"l","e","t">>, <<"v","a","r">>,
    <<"f","u","n","c","t","i","o","n">>, <<"r","e","t","u","r","n">>,
    <<"i","f">>, <<"e","l","s","e">>, <<"f","o","r">>, <<"w","h","i","l","e">>,
    <<"d","o">>, <<"s","w","i","t","c","h">>, <<"c","a","s","e">>,
    <<"b","r","e","a","k">>, <<"c","o","n","t","i","n","u","e">>,
    <<"d","e","f","a","u","l","t">>, <<"t","r","y">>, <<"c","a","t","c","h">>,
    <<"f","i","n","a","l","l","y">>, <<"t","h","r","o","w">>, <<"n","e","w">>,
    <<"c","l","a","s","s">>, <<"e","x","t","e","n","d","s">>,
    <<"i","m","p","l","e","m","e","n","t","s">>,
    <<"i","n","t","e","r","f","a","c","e">>, <<"t","y","p","e">>,
    <<"e","n","u","m">>, <<"i","m","p","o","r","t">>, <<"e","x","p","o","r","t">>,
    <<"f","r","o","m">>, <<"a","s">>, <<"a","s","y","n","c">>,
    <<"a","w","a","i","t">>, <<"y","i","e","l","d">>, <<"s","t","a","t","i","c">>,
    <<"p","u","b","l","i","c">>, <<"p","r","i","v","a","t","e">>,
    <<"p","r","o","t","e","c","t","e","d">>, <<"r","e","a","d","o","n","l","y">>,
    <<"a","b","s","t","r","a","c","t">>, <<"t","r","u","e">>,
    <<"f","a","l","s","e">>, <<"n","u","l","l">>,
    <<"u","n","d","e","f","i","n","e","d">>, <<"v","o","i","d">>,
    <<"n","e","v","e","r">>, <<"a","n","y">>, <<"u","n","k","n","o","w","n">>,
    <<"s","t","r","i","n","g">>, <<"n","u","m","b","e","r">>,
    <<"b","o","o","l","e","a","n">>, <<"o","b","j","e","c","t">>,
    <<"s","y","m","b","o","l">>, <<"b","i","g","i","n","t">>, <<"t","h","i","s">>,
    <<"s","u","p","e","r">>, <<"t","y","p","e","o","f">>,
    <<"i","n","s","t","a","n","c","e","o","f">>, <<"i","n">>, <<"o","f">>,
    <<"d","e","l","e","t","e">>, <<"d","e","c","l","a","r","e">> }

\* ^\/\/[^\n]*
reLineComment(r) ==
  IF StartsWith(r, <<"/", "/">>) THEN FirstIn(r, 3, {"\n"}) - 1 ELSE -1

\* Variant of the block comment pattern with a greedy body: it runs to the
\* last */ of the input.
reBlockCommentGreedy(r) ==
  LET ends == {p \in 3..(Len(r) - 1) : r[p] = "*" /\ r[p + 1] = "/"}
  IN IF StartsWith(r, <<"/", "*">>) /\ ends # {}
     THEN (CHOOSE p \in ends : \A q \in ends : q <= p) + 1
     ELSE -1

\* ^\/\*[\s\S]*?\*\/
reBlockComment(r) ==
  IF StartsWith(r, <<"/", "*">>) /\ IndexOfFrom(r, <<"*", "/">>, 3) > 0
  THEN IndexOfFrom(r, <<"*", "/">>, 3) + 1
  ELSE -1

\* ^0x[0-9a-fA-F]+   ^0b[01]+   ^0o[0-7]+
rePrefixed(r, letter, digits) ==
  IF StartsWith(r, <<"0", letter>>) /\ At(r, 3) \in digits
  THEN FirstNotIn(r, 3, digits) - 1
  ELSE -1

\* ^\d+\.?\d*(?:[eE][+-]?\d+)?
reDecimal(r) == IF DecimalEnd(r, 1) > 0 THEN DecimalEnd(r, 1) - 1 ELSE -1

\* The alternatives of the operator pattern, in the order the regex lists them.
MultiCharOperators ==
  << <<"=","=","=">>, <<"!","=","=">>, <<"=","=">>, <<"!","=">>, <<"<","=">>,
     <<">","=">>, <<"&","&">>, <<"|","|">>, <<"=",">">>, <<".",".",".">>,
     <<"?","?">>, <<"?",".">>, <<"+","+">>, <<"-","-">> >>

\* [+\-*/%<>&|^!~=?:]
SingleCharOperators ==
  {"+", "-", "*", "/", "%", "<", ">", "&", "|", "^", "!", "~", "=", "?", ":"}

\* Variant of the operator pattern with the character class as its first
\* alternative.
reOperatorSingleFirst(r) ==
  LET hits == {k \in DOMAIN MultiCharOperators : StartsWith(r, MultiCharOperators[k])}
  IN IF At(r, 1) \in SingleCharOperators THEN 1
     ELSE IF hits # {} THEN Len(MultiCharOperators[Min(hits)])
     ELSE -1

\* ^(?:===|!==|==|!=|<=|>=|&&|\|\||=>|\.\.\.|\?\?|\?\.|\+\+|--|[+\-*/%<>&|^!~=?:])
reOperator(r) ==
  LET hits == {k \in DOMAIN MultiCharOperators : StartsWith(r, MultiCharOperators[k])}
  IN IF hits # {} THEN Len(MultiCharOperators[Min(hits)])
     ELSE IF At(r, 1) \in SingleCharOperators THEN 1
     ELSE -1

\* ^[{}[\]();,.]
rePunctuation(r) ==
  IF At(r, 1) \in {"{", "}", "[", "]", "(", ")", ";", ",", "."} THEN 1 ELSE -1

\* ^[a-zA-Z_$][a-zA-Z0-9_$]*
reIdentifier(r) ==
  IF At(r, 1) \in IdentStart THEN FirstNotIn(r, 2, IdentPart) - 1 ELSE -1

\* The patterns array of tokenizeJS applied to the remaining input.
patternsJS(r) ==
  << [n |-> reLineComment(r),              type |-> "comment"],
     [n |-> reBlockComment(r),             type |-> "comment"],
     [n |-> reQuoted(r, "\""),             type |-> "string"],
     [n |-> reQuoted(r, "'"),              type |-> "string"],
     [n |-> reQuoted(r, Backquote),        type |-> "string"],
     [n |-> rePrefixed(r, "x", HexDigit),  type |-> "number"],
     [n |-> rePrefixed(r, "b", {"0", "1"}), type |-> "number"],
     [n |-> rePrefixed(r, "o", {"0", "1", "2", "3", "4", "5", "6", "7"}),
                                           type |-> "number"],
     [n |-> reDecimal(r),                  type |-> "number"],
     [n |-> reOperator(r),                 type |-> "operator"],
     [n |-> rePunctuation(r),              type |-> "punctuation"],
     [n |-> reIdentifier(r),               type |-> "plain"],
     [n |-> reWhitespace(r),               type |-> "plain"] >>

\* Variant of keywordType that tests whether the content starts with a keyword.
keywordTypeByPrefix(type, content) ==
  IF type = "plain" /\ \E k \in keywords : StartsWith(content, k) THEN "keyword" ELSE type

\* if (type === "plain" && keywords.has(content)) tokenType = "keyword"
keywordType(type, content) ==
  IF type = "plain" /\ content \in keywords THEN "keyword" ELSE type

\* Variant of iterJS whose fallback skips the unmatched character without
\* pushing a token for it.
iterJSSkipUnmatched(r) ==
  LET ps == patternsJS(r)
      k  == FirstMatch(ps)
  IN IF k > 0
     THEN [push |-> <<Token(keywordType(ps[k].type, SliceTo(r, ps[k].n)),
                            SliceTo(r, ps[k].n))>>,
           rest |-> Slice(r, ps[k].n)]
     ELSE [push |-> <<>>, rest |-> Slice(r, 1)]

\* One iteration of the while loop of tokenizeJS on remaining input r:
\* the tokens pushed and the new value of remaining.
iterJS(r) ==
  LET ps == patternsJS(r)
      k  == FirstMatch(ps)
  IN IF k > 0
     THEN [push |-> <<Token(keywordType(ps[k].type, SliceTo(r, ps[k].n)),
                            SliceTo(r, ps[k].n))>>,
           rest |-> Slice(r, ps[k].n)]
     ELSE [push |-> <<Token("plain", <<r[1]>>)>>, rest |-> Slice(r, 1)]

----------------------------------------------------------------------------
(* tokenizeHTML                                                            *)

\* [a-zA-Z0-9-] and [a-zA-Z0-9-:]
TagPart == Letter \cup Digit \cup {"-"}
AttrPart == Letter \cup Digit \cup {"-", ":"}

\* ^<!--[\s\S]*?-->
reHtmlComment(r) ==
  IF StartsWith(r, <<"<", "!", "-", "-">>) /\ IndexOfFrom(r, <<"-", "-", ">">>, 5) > 0
  THEN IndexOfFrom(r, <<"-", "-", ">">>, 5) + 2
  ELSE -1

\* ^<!DOCTYPE[^>]*> with the i flag
reDoctype(r) ==
  IF /\ Len(r) >= 9
     /\ [i \in 1..9 |-> ToLower(r[i])] = <<"<", "!", "d", "o", "c", "t", "y", "p", "e">>
     /\ FirstIn(r, 10, {">"}) <= Len(r)
  THEN FirstIn(r, 10, {">"})
  ELSE -1

\* Position of the first character of group 1 of ^<\/?([a-zA-Z][a-zA-Z0-9-]*)
tagNameStart(r) == IF At(r, 2) = "/" THEN 3 ELSE 2

\* ^<\/?([a-zA-Z][a-zA-Z0-9-]*)
reTag(r) ==
  IF At(r, 1) = "<" /\ At(r, tagNameStart(r)) \in Letter
  THEN FirstNotIn(r, tagNameStart(r) + 1, TagPart) - 1
  ELSE -1

\* handler of the tag pattern
handleTag(r) ==
  << Token("punctuation",
           IF StartsWith(SliceTo(r, reTag(r)), <<"<", "/">>) THEN <<"<", "/">> ELSE <<"<">>),
     Token("tag", SubSeq(r, tagNameStart(r), reTag(r))) >>

\* Length of group 1 of ^([a-zA-Z][a-zA-Z0-9-:]*)\s*=
attrNameLen(r) == FirstNotIn(r, 2, AttrPart) - 1

\* ^([a-zA-Z][a-zA-Z0-9-:]*)\s*=
reAttribute(r) ==
  IF /\ At(r, 1) \in Letter
     /\ At(r, FirstNotIn(r, attrNameLen(r) + 1, Whitespace)) = "="
  THEN FirstNotIn(r, attrNameLen(r) + 1, Whitespace)
  ELSE -1

\* Variant of the attribute handler that leaves the = to a later step.
handleAttributeNameOnly(r) == << Token("attribute", SliceTo(r, attrNameLen(r))) >>

\* handler of the attribute pattern
handleAttribute(r) ==
  << Token("attribute", SliceTo(r, attrNameLen(r))), Token("operator", <<"=">>) >>

\* ^"[^"]*" and ^'[^']*'
reHtmlString(r, q) ==
  IF At(r, 1) = q /\ FirstIn(r, 2, {q}) <= Len(r) THEN FirstIn(r, 2, {q}) ELSE -1

\* ^\/?>
reCloseBracket(r) ==
  IF StartsWith(r, <<"/", ">">>) THEN 2
  ELSE IF At(r, 1) = ">" THEN 1
  ELSE -1

\* The patterns array of tokenizeHTML applied to the remaining input: the
\* length of match[0] and the tokens the handler returns.
patternsHTML(r) ==
  << [n |-> reHtmlComment(r),     toks |-> <<Token("comment", SliceTo(r, reHtmlComment(r)))>>],
     [n |-> reDoctype(r),         toks |-> <<Token("keyword", SliceTo(r, reDoctype(r)))>>],
     [n |-> reTag(r),             toks |-> handleTag(r)],
     [n |-> reAttribute(r),       toks |-> handleAttribute(r)],
     [n |-> reHtmlString(r, "\""), toks |-> <<Token("string", SliceTo(r, reHtmlString(r, "\"")))>>],
     [n |-> reHtmlString(r, "'"), toks |-> <<Token("string", SliceTo(r, reHtmlString(r, "'")))>>],
     [n |-> reCloseBracket(r),    toks |-> <<Token("punctuation", SliceTo(r, reCloseBracket(r)))>>],
     [n |-> reWhitespace(r),      toks |-> <<Token("plain", SliceTo(r, reWhitespace(r)))>>] >>

\* Variant of fallbackHTML without the nextTag === 0 branch.
fallbackHTMLNoZeroBranch(r) ==
  LET nextTag == IndexOfFrom(r, <<"<">>, 1) - 1
  IN IF nextTag = -1
     THEN [push |-> <<Token("plain", r)>>, rest |-> r, brk |-> TRUE]
     ELSE [push |-> <<Token("plain", SliceTo(r, nextTag))>>, rest |-> Slice(r, nextTag),
           brk |-> FALSE]

\* Variant of the fallback that takes the whole remainder whether or not a <
\* is left.
fallbackHTMLToEnd(r) == [push |-> <<Token("plain", r)>>, rest |-> r, brk |-> TRUE]

\* The plain-text fallback of tokenizeHTML (no pattern matched): the token
\* pushed, the new remaining, and whether the loop is left by break.
fallbackHTML(r) ==
  LET nextTag == IndexOfFrom(r, <<"<">>, 1) - 1
  IN IF nextTag = -1
     THEN [push |-> <<Token("plain", r)>>, rest |-> r, brk |-> TRUE]
     ELSE IF nextTag = 0
     THEN [push |-> <<Token("plain", <<r[1]>>)>>, rest |-> Slice(r, 1), brk |-> FALSE]
     ELSE [push |-> <<Token("plain", SliceTo(r, nextTag))>>, rest |-> Slice(r, nextTag),
           brk |-> FALSE]

\* One iteration of the while loop of tokenizeHTML on remaining input r.
iterHTML(r) ==
  LET k == FirstMatch(patternsHTML(r))
  IN IF k > 0
     THEN [push |-> patternsHTML(r)[k].toks, rest |-> Slice(r, patternsHTML(r)[k].n),
           brk |-> FALSE]
     ELSE fallbackHTML(r)

----------------------------------------------------------------------------
(* tokenizeJSON                                                            *)

\* ^-?\d+\.?\d*(?:[eE][+-]?\d+)?
reJsonNumber(r) ==
  LET i == IF At(r, 1) = "-" THEN 2 ELSE 1
  IN IF DecimalEnd(r, i) > 0 THEN DecimalEnd(r, i) - 1 ELSE -1

\* ^(?:true|false|null)
reJsonKeyword(r) ==
  IF StartsWith(r, <<"t", "r", "u", "e">>) THEN 4
  ELSE IF StartsWith(r, <<"f", "a", "l", "s", "e">>) THEN 5
  ELSE IF StartsWith(r, <<"n", "u", "l", "l">>) THEN 4
  ELSE -1

\* ^[{}[\]:,]
reJsonPunctuation(r) ==
  IF At(r, 1) \in {"{", "}", "[", "]", ":", ","} THEN 1 ELSE -1

\* The patterns array of tokenizeJSON applied to the remaining input.
patternsJSON(r) ==
  << [n |-> reQuoted(r, "\""),     type |-> "string"],
     [n |-> reJsonNumber(r),       type |-> "number"],
     [n |-> reJsonKeyword(r),      type |-> "keyword"],
     [n |-> reJsonPunctuation(r),  type |-> "punctuation"],
     [n |-> reWhitespace(r),       type |-> "plain"] >>

\* s.trimStart()
TrimStart(s) == Slice(s, FirstNotIn(s, 1, Whitespace) - 1)

\* Variant of propertyType that looks at the next character without trimStart.
propertyTypeNoTrim(r, n, type, flag) ==
  IF type = "string" /\ ~flag /\ StartsWith(Slice(r, n), <<":">>)
  THEN "property"
  ELSE type

\* The type given to a match of length n and pattern type `type` when the
\* colon flag is `flag`: a string not preceded by a colon token and followed,
\* after whitespace, by a colon is a property.
propertyType(r, n, type, flag) ==
  IF type = "string" /\ ~flag /\ StartsWith(TrimStart(Slice(r, n)), <<":">>)
  THEN "property"
  ELSE type

\* Variant of iterJSON in which a whitespace match leaves the colon flag.
iterJSONSkipWhitespace(r, flag) ==
  LET ps == patternsJSON(r)
      k  == FirstMatch(ps)
  IN IF k > 0
     THEN [push |-> <<Token(propertyType(r, ps[k].n, ps[k].type, flag), SliceTo(r, ps[k].n))>>,
           rest |-> Slice(r, ps[k].n),
           flag |-> IF r[1] \in Whitespace THEN flag ELSE (SliceTo(r, ps[k].n) = <<":">>)]
     ELSE [push |-> <<Token("plain", <<r[1]>>)>>, rest |-> Slice(r, 1), flag |-> flag]

\* One iteration of the while loop of tokenizeJSON on remaining input r with
\* colon flag `flag`: the token pushed, the new remaining, the new flag.
iterJSON(r, flag) ==
  LET ps == patternsJSON(r)
      k  == FirstMatch(ps)
  IN IF k > 0
     THEN [push |-> <<Token(propertyType(r, ps[k].n, ps[k].type, flag), SliceTo(r, ps[k].n))>>,
           rest |-> Slice(r, ps[k].n),
           flag |-> (SliceTo(r, ps[k].n) = <<":">>)]
     ELSE [push |-> <<Token("plain", <<r[1]>>)>>, rest |-> Slice(r, 1), flag |-> flag]

----------------------------------------------------------------------------
(* The lines memo of CodeBlock                                             *)

\* Variant of Split that splits at the first newline only.
SplitOnce(s) ==
  LET nl == IndexOfFrom(s, <<"\n">>, 1)
  IN IF nl = 0 THEN <<s>> ELSE <<SliceTo(s, nl - 1), Slice(s, nl)>>

\* content.split("\n")
RECURSIVE Split(_)
Split(s) ==
  LET nl == IndexOfFrom(s, <<"\n">>, 1)
  IN IF nl = 0 THEN <<s>> ELSE <<SliceTo(s, nl - 1)>> \o Split(Slice(s, nl))

\* Variant of the inner loop without the test of parts[i]: empty fragments are
\* stored too.
RECURSIVE addPartsKeepEmpty(_, _, _, _)
addPartsKeepEmpty(result, type, parts, i) ==
  IF i > Len(parts) THEN result
  ELSE LET opened == IF i > 1 THEN Append(result, <<>>) ELSE result
           last   == Len(opened)
           pushed == [opened EXCEPT ![last] = Append(@, Token(type, parts[i]))]
       IN addPartsKeepEmpty(pushed, type, parts, i + 1)

\* Variant of the inner loop that stores every fragment as plain.
RECURSIVE addPartsPlain(_, _, _, _)
addPartsPlain(result, type, parts, i) ==
  IF i > Len(parts) THEN result
  ELSE LET opened == IF i > 1 THEN Append(result, <<>>) ELSE result
           last   == Len(opened)
           pushed == IF parts[i] # <<>>
                     THEN [opened EXCEPT ![last] = Append(@, Token("plain", parts[i]))]
                     ELSE opened
       IN addPartsPlain(pushed, type, parts, i + 1)

\* The inner for loop: the parts of one token, from part i on, added to result.
RECURSIVE addParts(_, _, _, _)
addParts(result, type, parts, i) ==
  IF i > Len(parts) THEN result
  ELSE LET opened == IF i > 1 THEN Append(result, <<>>) ELSE result
           last   == Len(opened)
           pushed == IF parts[i] # <<>>
                     THEN [opened EXCEPT ![last] = Append(@, Token(type, parts[i]))]
                     ELSE opened
       IN addParts(pushed, type, parts, i + 1)

\* The outer for loop over the tokens, from token t on.
RECURSIVE splitLines(_, _, _)
splitLines(result, toks, t) ==
  IF t > Len(toks) THEN result
  ELSE splitLines(addParts(result, toks[t].type, Split(toks[t].content), 1), toks, t + 1)

\* const result: Token[][] = [[]]; for (const token of tokens) ...
toLines(toks) == splitLines(<< <<>> >>, toks, 1)

----------------------------------------------------------------------------
(* The inputs: every concatenation of at most MaxPieces fragments of the   *)
(* language's fragment set, and the named example sources.                 *)

MaxPieces == 3
MaxGap == 2

RECURSIVE Pieces(_, _)
Pieces(F, k) ==
  IF k = 0 THEN {<<>>}
  ELSE Pieces(F, k - 1) \cup {s \o f : s \in Pieces(F, k - 1), f \in F}

FragmentsJS ==
  { <<"i">>, <<"f">>, <<"1">>, <<"=">>, <<".">>, <<" ">>, <<"\n">>, <<"/">>, <<"*">>,
    <<"\"">>, <<"\\">> }

ExamplesJS ==
  { <<"c","o","n","s","t"," ","x"," ","="," ","1",";">>,
    <<"c","o","n","s","t","a","n","t">>,
    <<"C","o","n","s","t">>,
    <<"I","f"," ","i","f">> }

FragmentsHTML ==
  { <<"<">>, <<">">>, <<"/">>, <<"=">>, <<"\"">>, <<" ">>, <<"\n">>, <<"a">>,
    <<"<", "!", "-", "-">>, <<"-", "-", ">">> }

\* <name attr="value" bare>
TagForm(name, attr, value, bare) ==
  <<"<">> \o name \o <<" ">> \o attr \o <<"=", "\"">> \o value \o <<"\"", " ">>
          \o bare \o <<">">>

TagNames == { <<"a">>, <<"i","n","p","u","t">> }
AttrNames == { <<"b">>, <<"t","y","p","e">> }
AttrValues == { <<>>, <<"c">>, <<"e","m","a","i","l">> }
BareNames == { <<"d">>, <<"r","e","q","u","i","r","e","d">> }

TagFormSources ==
  { TagForm(n, a, v, b) : n \in TagNames, a \in AttrNames, v \in AttrValues, b \in BareNames }

ExamplesHTML ==
  TagFormSources \cup
  { <<"<","!","D","o","c","t","y","p","e"," ","a",">","<","a",">">>,
    <<"<","a"," ","b","=","'","c","'","/",">","d","<","/","a",">">> }

FragmentsJSON ==
  { <<"\"">>, <<"\"", "a", "\"">>, <<":">>, <<" ">>, <<"\n">>, <<"\\">>, <<"{">>,
    <<"1">>, <<"a">>, <<"n", "u", "l", "l">> }

\* { key : value } with the whitespace runs g1 and g2 around the colon
KeyValueForm(key, g1, g2, value) ==
  <<"{">> \o key \o g1 \o <<":">> \o g2 \o value \o <<"}">>

\* Double-quoted strings the string pattern matches whole.
QuotedStrings ==
  { <<"\"", "\"">>, <<"\"", "a", "\"">>, <<"\"", "a", "\\", "\"", ":", "\"">>,
    <<"\"", " ", ":", "\"">> }

Gaps == Pieces({<<" ">>, <<"\n">>}, MaxGap)

KeyValueSources ==
  { KeyValueForm(k, g1, g2, v) : k \in QuotedStrings, g1 \in Gaps, g2 \in Gaps,
                                 v \in QuotedStrings }

SupportedLanguage == {"typescript", "javascript", "html", "json"}

\* Tags outside SupportedLanguage, which reach the default branch of tokenize.
OtherLanguage == {"css", "text"}

SourcesOf(lang) ==
  CASE lang \in {"typescript", "javascript"} -> Pieces(FragmentsJS, MaxPieces) \cup ExamplesJS
    [] lang = "html" -> Pieces(FragmentsHTML, MaxPieces) \cup ExamplesHTML
    [] lang = "json" -> Pieces(FragmentsJSON, MaxPieces) \cup KeyValueSources
    [] OTHER -> Pieces(FragmentsJSON, MaxPieces)

----------------------------------------------------------------------------
(* Navigation: the items, the lookups by path, PageNavigation and the      *)
(* sidebar NavigationList. A path is the sequence of its "/" characters    *)
(* and of the slash-free names between them ("/core-concepts/" is          *)
(* <<"/", "core-concepts", "/">>), so a path that ends with "/" has more   *)
(* than one character exactly if it has more than one element.             *)

NavItem(title, name) == [title |-> title, href |-> <<"/", name>>]

navigationItems ==
  << NavItem("Introduction", "introduction"),
     NavItem("Core Concepts", "core-concepts"),
     NavItem("JavaScript API", "javascript-api"),
     NavItem("HTML Attributes", "html-attributes"),
     NavItem("Operation Tracking", "operation-tracking"),
     NavItem("Human Input", "human-input"),
     NavItem("Authentication", "authentication"),
     NavItem("Agent Docs", "agent-docs") >>

\* undefined, where a NavItem is expected.
Undefined == [title |-> "", href |-> <<>>]

\* Variant of normalizePath that leaves the path as it is.
normalizePathIdentity(path) == path

\* path.endsWith("/") && path.length > 1 ? path.slice(0, -1) : path
normalizePath(path) ==
  IF Len(path) > 1 /\ path[Len(path)] = "/"
  THEN SubSeq(path, 1, Len(path) - 1)
  ELSE path

\* navigationItems.findIndex(...): the 0-based index of the first item whose
\* href is the normalized path, -1 when there is none.
getNavItemIndex(path) ==
  LET hits == {i \in DOMAIN navigationItems :
                 navigationItems[i].href = normalizePath(path)}
  IN IF hits = {} THEN -1 ELSE Min(hits) - 1

\* The item at 0-based index i.
itemAt(i) == navigationItems[i + 1]

\* navigationItems.find(...)
getNavItem(path) ==
  LET hits == {i \in DOMAIN navigationItems :
                 navigationItems[i].href = normalizePath(path)}
  IN IF hits = {} THEN Undefined ELSE navigationItems[Min(hits)]

getPreviousNavItem(path) ==
  LET index == getNavItemIndex(path)
  IN IF index > 0 THEN itemAt(index - 1) ELSE Undefined

getNextNavItem(path) ==
  LET index == getNavItemIndex(path)
  IN IF index >= 0 /\ index < Len(navigationItems) - 1 THEN itemAt(index + 1)
     ELSE Undefined

\* isActive={currentPath === item.href}
isActive(currentPath, item) == currentPath = item.href

\* What PageNavigation returns: null, or a nav with the previous and the next
\* link (each shown when its item is not undefined); "pending" before it has
\* rendered.
NoPageNav == [state |-> "pending", previous |-> Undefined, next |-> Undefined]

----------------------------------------------------------------------------
(* One render of CodeBlock: tokenize(code, language), then the lines memo. *)

\* A call of tokenize with its locals, as a record (the second call of the
\* interleaved specification).
Call(c, lang, at) ==
  [code |-> c, language |-> lang, pc |-> at, tokens |-> <<>>, remaining |-> <<>>,
   lastWasColon |-> FALSE]

\* No second call.
NoCall == Call(<<>>, "json", "none")

\* Nothing rendered of the page chrome: no PageNavigation, no NavigationList.
NoSite ==
  [pathname |-> <<>>, previousPage |-> Undefined, nextPage |-> Undefined,
   pageNav |-> NoPageNav, sidebar |-> <<>>]

\* Nothing returned yet by the render.
NoView == [header |-> <<>>, rows |-> <<>>]

\* The locals of the render before tokenize is called.
Entry ==
  /\ view = NoView
  /\ site = NoSite
  /\ pc = "call"
  /\ tokens = <<>>
  /\ remaining = <<>>
  /\ lastWasColon = FALSE
  /\ lines = <<>>

Init ==
  /\ language \in SupportedLanguage \cup OtherLanguage
  /\ code \in SourcesOf(language)
  /\ filename = "absent"
  /\ showLineNumbers = "omitted"
  /\ other = NoCall
  /\ Entry

\* Variant of lexerOf with the html and json cases exchanged.
lexerOfSwapped(lang) ==
  CASE lang \in {"typescript", "javascript"} -> "tokenizeJS"
    [] lang = "html" -> "tokenizeJSON"
    [] lang = "json" -> "tokenizeHTML"
    [] OTHER -> "default"

\* Variant of lexerOf whose default falls through to tokenizeJS.
lexerOfDefaultJS(lang) ==
  CASE lang = "html" -> "tokenizeHTML"
    [] lang = "json" -> "tokenizeJSON"
    [] OTHER -> "tokenizeJS"

\* The lexer the switch of tokenize selects; "default" for any other tag.
lexerOf(lang) ==
  CASE lang \in {"typescript", "javascript"} -> "tokenizeJS"
    [] lang = "html" -> "tokenizeHTML"
    [] lang = "json" -> "tokenizeJSON"
    [] OTHER -> "default"

\* default: return [{ type: "plain", content: code }]
defaultTokens(c) == <<Token("plain", c)>>

\* tokenizeJS(code) as a function: the loop run from remaining input r.
RECURSIVE runJS(_)
runJS(r) == IF Len(r) = 0 THEN <<>> ELSE iterJS(r).push \o runJS(iterJS(r).rest)

\* tokenizeHTML(code) as a function: the loop run from remaining input r.
RECURSIVE runHTML(_)
runHTML(r) ==
  IF Len(r) = 0 THEN <<>>
  ELSE IF iterHTML(r).brk THEN iterHTML(r).push
  ELSE iterHTML(r).push \o runHTML(iterHTML(r).rest)

\* tokenizeJSON(code) as a function: the loop run from remaining input r with
\* colon flag `flag`.
RECURSIVE runJSON(_, _)
runJSON(r, flag) ==
  IF Len(r) = 0 THEN <<>>
  ELSE iterJSON(r, flag).push \o runJSON(iterJSON(r, flag).rest, iterJSON(r, flag).flag)

\* tokenize as a function of its two arguments: the whole run of the lexer the
\* switch selects.
tokenizeOf(c, lang) ==
  CASE lexerOf(lang) = "tokenizeJS" -> runJS(c)
    [] lexerOf(lang) = "tokenizeHTML" -> runHTML(c)
    [] lexerOf(lang) = "tokenizeJSON" -> runJSON(c, FALSE)
    [] OTHER -> defaultTokens(c)

\* A flag that outlives the call (a module-level variable instead of a local).
staleFlag(stale) == stale

\* let lastWasColon = false: the flag is a local of each call of tokenizeJSON,
\* whatever value an earlier call left (stale).
freshFlag(stale) == FALSE

\* tokenize: the switch, and the entry of the selected lexer up to its loop.
tokenize ==
  /\ pc = "call"
  /\ IF lexerOf(language) = "default"
     THEN /\ tokens' = defaultTokens(code)
          /\ pc' = "returned"
          /\ UNCHANGED remaining
     ELSE /\ tokens' = <<>>
          /\ remaining' = code
          /\ pc' = lexerOf(language)
  /\ lastWasColon' = freshFlag(lastWasColon)
  /\ UNCHANGED <<code, language, filename, showLineNumbers, other, view, site, lines>>

\* One iteration of the while loop of tokenizeJS.
tokenizeJS ==
  /\ pc = "tokenizeJS"
  /\ Len(remaining) > 0
  /\ tokens' = tokens \o iterJS(remaining).push
  /\ remaining' = iterJS(remaining).rest
  /\ UNCHANGED <<code, language, filename, showLineNumbers, other, view, site, pc, lastWasColon, lines>>

\* One iteration of the while loop of tokenizeHTML; the break of the
\* plain-text fallback leaves the loop and returns.
tokenizeHTML ==
  /\ pc = "tokenizeHTML"
  /\ Len(remaining) > 0
  /\ tokens' = tokens \o iterHTML(remaining).push
  /\ remaining' = iterHTML(remaining).rest
  /\ pc' = IF iterHTML(remaining).brk THEN "returned" ELSE pc
  /\ UNCHANGED <<code, language, filename, showLineNumbers, other, view, site, lastWasColon, lines>>

\* One iteration of the while loop of tokenizeJSON.
tokenizeJSON ==
  /\ pc = "tokenizeJSON"
  /\ Len(remaining) > 0
  /\ tokens' = tokens \o iterJSON(remaining, lastWasColon).push
  /\ remaining' = iterJSON(remaining, lastWasColon).rest
  /\ lastWasColon' = iterJSON(remaining, lastWasColon).flag
  /\ UNCHANGED <<code, language, filename, showLineNumbers, other, view, site, pc, lines>>

\* while (remaining.length > 0) is false: return tokens.
returnTokens ==
  /\ pc \in {"tokenizeJS", "tokenizeHTML", "tokenizeJSON"}
  /\ Len(remaining) = 0
  /\ pc' = "returned"
  /\ UNCHANGED <<code, language, filename, showLineNumbers, other, view, site, tokens, remaining, lastWasColon, lines>>

\* Variant of the lines memo that puts the filename header in front of the
\* line groups.
memoLinesWithHeader(toks, fname, show) ==
  IF fname = "absent" THEN toLines(toks)
  ELSE << <<Token("plain", <<fname>>)>> >> \o toLines(toks)

\* The lines memo of CodeBlock: of the props and values in its scope it reads
\* tokens only (its dependency list is [tokens]).
memoLines(toks, fname, show) == toLines(toks)

\* The lines memo of CodeBlock.
linesMemo ==
  /\ pc = "returned"
  /\ lines' = memoLines(tokens, filename, showLineNumbers)
  /\ pc' = "rendered"
  /\ UNCHANGED <<code, language, filename, showLineNumbers, other, view, site, tokens, remaining, lastWasColon>>

Next ==
  \/ tokenize
  \/ tokenizeJS
  \/ tokenizeHTML
  \/ tokenizeJSON
  \/ returnTokens
  \/ linesMemo

Spec == Init /\ [][Next]_vars

\* ---------------------------------------------------------------------------
\* Repeated calls: the component renders again and calls tokenize anew
\* ---------------------------------------------------------------------------

\* Sources of the specifications that run more than one call: for tokenizeJSON
\* one that ends with the colon flag true and ones that begin with a string.
CallSources(lang) ==
  CASE lang \in {"typescript", "javascript"} ->
         {<<>>, <<"i", "f">>, <<"i", "=", "1">>, <<"\"">>}
    [] lang = "html" ->
         {<<"<", "a", ">">>, <<"a", " ", "=">>, <<"a">>}
    [] lang = "json" ->
         {<<":">>, <<"\"", "a", "\"">>, <<"\"", "a", "\"", ":">>,
          <<":", " ", "\"", "a", "\"">>}
    [] OTHER -> {<<>>, <<"a">>}

InitRepeat ==
  /\ language \in SupportedLanguage \cup OtherLanguage
  /\ code \in CallSources(language)
  /\ filename = "absent"
  /\ showLineNumbers = "omitted"
  /\ other = NoCall
  /\ Entry

\* CodeBlock is rendered again with other props (or mounted again with the
\* same): tokenize is called anew; what the earlier call left is stale.
rerender ==
  /\ pc = "rendered"
  /\ \E lang \in SupportedLanguage \cup OtherLanguage :
       \E c \in CallSources(lang) :
         /\ language' = lang
         /\ code' = c
  /\ pc' = "call"
  /\ UNCHANGED <<filename, showLineNumbers, other, view, site, tokens, remaining,
                 lastWasColon, lines>>

NextRepeat ==
  \/ Next
  \/ rerender

SpecRepeat == InitRepeat /\ [][NextRepeat]_vars

\* ---------------------------------------------------------------------------
\* Renderer options: CodeBlock with every combination of filename and
\* showLineNumbers
\* ---------------------------------------------------------------------------

\* filename?: string. "absent" stands for the prop left out.
Filenames == {"absent", "", "a.ts"}

\* showLineNumbers?: boolean. "omitted" stands for the prop left out (the
\* destructuring default then makes it false).
LineNumberOptions == {"omitted", "true", "false"}

\* Sources of more than one line, next to the sources of CallSources.
PropsSources(lang) == CallSources(lang) \cup {<<"a", "\n", "1">>, <<"\n">>}

InitProps ==
  /\ language \in SupportedLanguage \cup OtherLanguage
  /\ code \in PropsSources(language)
  /\ filename \in Filenames
  /\ showLineNumbers \in LineNumberOptions
  /\ other = NoCall
  /\ Entry

SpecProps == InitProps /\ [][Next]_vars

\* ---------------------------------------------------------------------------
\* The lines memo alone, on every token list of at most MaxTokens tokens whose
\* texts have at most MaxText characters
\* ---------------------------------------------------------------------------

MaxTokens == 2
MaxText == 3

SeqsUpTo(S, n) == UNION {[1..k -> S] : k \in 0..n}

\* Token texts, the empty text among them, and two of the token types.
Texts == SeqsUpTo({"a", "\n"}, MaxText)
Kinds == {"plain", "comment"}
TokenLists == SeqsUpTo([type : Kinds, content : Texts], MaxTokens)

InitLines ==
  /\ language = "json"
  /\ code = <<>>
  /\ filename = "absent"
  /\ showLineNumbers = "omitted"
  /\ other = NoCall
  /\ view = NoView
  /\ site = NoSite
  /\ pc = "returned"
  /\ tokens \in TokenLists
  /\ remaining = <<>>
  /\ lastWasColon = FALSE
  /\ lines = <<>>

NextLines == linesMemo

SpecLines == InitLines /\ [][NextLines]_vars

\* ---------------------------------------------------------------------------
\* tokenizeHTML alone, on the markup sources
\* ---------------------------------------------------------------------------

InitMarkup ==
  /\ language = "html"
  /\ code \in SourcesOf("html")
  /\ filename = "absent"
  /\ showLineNumbers = "omitted"
  /\ other = NoCall
  /\ Entry

NextMarkup ==
  \/ tokenize
  \/ tokenizeHTML
  \/ returnTokens
  \/ linesMemo

SpecMarkup == InitMarkup /\ [][NextMarkup]_vars

\* ---------------------------------------------------------------------------
\* tokenizeJS alone, on sources built from operator characters
\* ---------------------------------------------------------------------------

MaxOperatorPieces == 3

FragmentsOperators ==
  { <<"=">>, <<"!">>, <<"<">>, <<">">>, <<"&">>, <<"|">>, <<".">>, <<"?">>, <<"+">>,
    <<"-">>, <<"1">>, <<"a">> }

ExamplesOperators ==
  { <<"=", "=", "=", "=">>, <<"!", "=", "=", "=">>, <<".", ".", ".", ".">>,
    <<"a", "?", ".", "b">>, <<"a", "=", "=", "=", "1">>, <<"x", "=", ">", "1">>,
    <<"1", ".", ".", ".">> }

NextScript ==
  \/ tokenize
  \/ tokenizeJS
  \/ returnTokens
  \/ linesMemo

InitOperators ==
  /\ language = "typescript"
  /\ code \in Pieces(FragmentsOperators, MaxOperatorPieces) \cup ExamplesOperators
  /\ filename = "absent"
  /\ showLineNumbers = "omitted"
  /\ other = NoCall
  /\ Entry

SpecOperators == InitOperators /\ [][NextScript]_vars

\* ---------------------------------------------------------------------------
\* tokenizeJS alone, on sources built from comment and string delimiters
\* ---------------------------------------------------------------------------

MaxCommentPieces == 4

FragmentsComments ==
  { <<"/">>, <<"*">>, <<"/", "*">>, <<"*", "/">>, <<"\"">>, <<"\n">>, <<"a">> }

InitComments ==
  /\ language = "typescript"
  /\ code \in Pieces(FragmentsComments, MaxCommentPieces)
  /\ filename = "absent"
  /\ showLineNumbers = "omitted"
  /\ other = NoCall
  /\ Entry

SpecComments == InitComments /\ [][NextScript]_vars

\* ---------------------------------------------------------------------------
\* tokenizeJS alone, on sources built from quotes, backslashes and newlines
\* ---------------------------------------------------------------------------

MaxStringPieces == 4

FragmentsStrings ==
  { <<"\"">>, <<"'">>, <<Backquote>>, <<"\\">>, <<"a">>, <<"\n">>,
    <<"$", "{", "a", "}">> }

InitStrings ==
  /\ language = "typescript"
  /\ code \in Pieces(FragmentsStrings, MaxStringPieces)
  /\ filename = "absent"
  /\ showLineNumbers = "omitted"
  /\ other = NoCall
  /\ Entry

SpecStrings == InitStrings /\ [][NextScript]_vars

\* ---------------------------------------------------------------------------
\* The element CodeBlock returns: the filename header and one row per line
\* group, each row an optional line number and its spans
\* ---------------------------------------------------------------------------

\* getTokenClass
getTokenClass(type) ==
  CASE type = "keyword" -> "font-semibold text-foreground"
    [] type = "string" -> "text-muted-foreground"
    [] type = "number" -> "text-foreground"
    [] type = "comment" -> "text-muted-foreground/60 italic"
    [] type = "punctuation" -> "text-muted-foreground"
    [] type = "operator" -> "text-foreground"
    [] type = "property" -> "font-medium text-foreground"
    [] type = "tag" -> "font-semibold text-foreground"
    [] type = "attribute" -> "text-muted-foreground"
    [] OTHER -> "text-foreground"

\* showLineNumbers = false in the parameter list: the prop left out is false.
showNumbers(show) == show = "true"

\* {filename && (...)}: the header, for a filename that is present and not
\* the empty string.
headerOf(fname) == IF fname \notin {"absent", ""} THEN <<fname>> ELSE <<>>

\* Variant of lineNumber that shows the index itself.
lineNumberZeroBased(lineIndex) == lineIndex

\* {lineIndex + 1}
lineNumber(lineIndex) == lineIndex + 1

\* <span>&nbsp;</span>
Placeholder == [class |-> "", text |-> <<"nbsp">>]

\* Variant of the line content without the placeholder of an empty group.
lineContentNoPlaceholder(lineTokens) ==
  [t \in DOMAIN lineTokens |->
     [class |-> getTokenClass(lineTokens[t].type), text |-> lineTokens[t].content]]

\* The spans of one line: the placeholder for an empty group, else one span
\* per token.
lineContent(lineTokens) ==
  IF Len(lineTokens) = 0 THEN <<Placeholder>>
  ELSE [t \in DOMAIN lineTokens |->
          [class |-> getTokenClass(lineTokens[t].type), text |-> lineTokens[t].content]]

\* lines.map((lineTokens, lineIndex) => ...): lineIndex counts from 0.
rowsOf(ls, show) ==
  [r \in DOMAIN ls |->
     [number |-> IF showNumbers(show) THEN <<lineNumber(r - 1)>> ELSE <<>>,
      spans  |-> lineContent(ls[r])]]

\* The empty source and a source of four lines, next to the sources of
\* PropsSources.
RenderSources(lang) == PropsSources(lang) \cup {<<>>, <<"\n", "a", "\n", "\n">>}

InitRender ==
  /\ language \in SupportedLanguage \cup OtherLanguage
  /\ code \in RenderSources(language)
  /\ filename \in Filenames
  /\ showLineNumbers \in LineNumberOptions
  /\ other = NoCall
  /\ Entry

\* return ( <div> ... </div> ): the element of this render.
render ==
  /\ pc = "rendered"
  /\ view' = [header |-> headerOf(filename), rows |-> rowsOf(lines, showLineNumbers)]
  /\ pc' = "shown"
  /\ UNCHANGED <<code, language, filename, showLineNumbers, other, site, tokens, remaining,
                 lastWasColon, lines>>

NextRender ==
  \/ Next
  \/ render

SpecRender == InitRender /\ [][NextRender]_vars

\* ---------------------------------------------------------------------------
\* The page chrome: PageNavigation and NavigationList rendered for a pathname
\* ---------------------------------------------------------------------------

\* Values of usePathname(): every page path without, with one and with two
\* trailing slashes, the root, the empty path and paths of no page.
Pathnames ==
  UNION {{navigationItems[i].href, navigationItems[i].href \o <<"/">>,
          navigationItems[i].href \o <<"/", "/">>} : i \in DOMAIN navigationItems}
  \cup {<<>>, <<"/">>, <<"/", "missing">>, <<"/", "missing", "/">>,
        <<"/", "introduction", "/", "x">>}

\* The previousPage and nextPage props: left out, or an item given by the page.
PageProps == {Undefined, navigationItems[3]}

InitSite ==
  /\ language = "json"
  /\ code = <<>>
  /\ filename = "absent"
  /\ showLineNumbers = "omitted"
  /\ other = NoCall
  /\ view = NoView
  /\ pc = "unmounted"
  /\ tokens = <<>>
  /\ remaining = <<>>
  /\ lastWasColon = FALSE
  /\ lines = <<>>
  /\ \E path \in Pathnames : \E prev \in PageProps : \E nxt \in PageProps :
       site = [NoSite EXCEPT !.pathname = path, !.previousPage = prev, !.nextPage = nxt]

\* PageNavigation: previous and next from the props or from the pathname;
\* null when there is neither.
PageNavigation ==
  /\ site.pageNav.state = "pending"
  /\ LET previous == IF site.previousPage # Undefined THEN site.previousPage
                     ELSE getPreviousNavItem(site.pathname)
         next     == IF site.nextPage # Undefined THEN site.nextPage
                     ELSE getNextNavItem(site.pathname)
     IN site' = [site EXCEPT !.pageNav =
                   IF previous = Undefined /\ next = Undefined
                   THEN [state |-> "null", previous |-> Undefined, next |-> Undefined]
                   ELSE [state |-> "nav", previous |-> previous, next |-> next]]
  /\ UNCHANGED <<code, language, filename, showLineNumbers, other, view, pc, tokens,
                 remaining, lastWasColon, lines>>

\* NavigationList: one NavigationLink per item, with its isActive.
NavigationList ==
  /\ site.sidebar = <<>>
  /\ site' = [site EXCEPT !.sidebar =
                [i \in DOMAIN navigationItems |->
                   isActive(site.pathname, navigationItems[i])]]
  /\ UNCHANGED <<code, language, filename, showLineNumbers, other, view, pc, tokens,
                 remaining, lastWasColon, lines>>

NextSite ==
  \/ PageNavigation
  \/ NavigationList

SpecSite == InitSite /\ [][NextSite]_vars

\* ---------------------------------------------------------------------------
\* Interleaved calls: a second call of tokenize, held in `other`, whose loop
\* steps are taken between the loop steps of the first
\* ---------------------------------------------------------------------------

\* A colon flag shared by all calls (a module-level variable): a step reads
\* the value the other call wrote last.
sharedFlag(own, foreign) == foreign

\* The lastWasColon a loop step of tokenizeJSON reads: the local declared by
\* its own call, not the one of any other call.
flagInScope(own, foreign) == own

\* tokenize, for the call held in record c.
enterCall(c) ==
  IF lexerOf(c.language) = "default"
  THEN [c EXCEPT !.tokens = defaultTokens(c.code), !.pc = "returned"]
  ELSE [c EXCEPT !.tokens = <<>>, !.remaining = c.code,
                 !.pc = lexerOf(c.language), !.lastWasColon = FALSE]

\* One iteration of the while loop the call held in record c is in; foreign is
\* the colon flag of the other call.
iterCall(c, foreign) ==
  CASE c.pc = "tokenizeJS" ->
         [c EXCEPT !.tokens = @ \o iterJS(c.remaining).push,
                   !.remaining = iterJS(c.remaining).rest]
    [] c.pc = "tokenizeHTML" ->
         [c EXCEPT !.tokens = @ \o iterHTML(c.remaining).push,
                   !.remaining = iterHTML(c.remaining).rest,
                   !.pc = IF iterHTML(c.remaining).brk THEN "returned" ELSE @]
    [] c.pc = "tokenizeJSON" ->
         LET it == iterJSON(c.remaining, flagInScope(c.lastWasColon, foreign))
         IN  [c EXCEPT !.tokens = @ \o it.push,
                       !.remaining = it.rest,
                       !.lastWasColon = it.flag]

InitInterleaved ==
  /\ language \in SupportedLanguage \cup OtherLanguage
  /\ code \in CallSources(language)
  /\ filename = "absent"
  /\ showLineNumbers = "omitted"
  /\ \E lang \in SupportedLanguage \cup OtherLanguage :
       \E c \in CallSources(lang) : other = Call(c, lang, "call")
  /\ Entry

\* The second call enters tokenize.
otherTokenize ==
  /\ other.pc = "call"
  /\ other' = enterCall(other)
  /\ UNCHANGED <<code, language, filename, showLineNumbers, view, site, pc, tokens,
                 remaining, lastWasColon, lines>>

\* One loop iteration of the second call.
otherIterate ==
  /\ other.pc \in {"tokenizeJS", "tokenizeHTML", "tokenizeJSON"}
  /\ Len(other.remaining) > 0
  /\ other' = iterCall(other, lastWasColon)
  /\ UNCHANGED <<code, language, filename, showLineNumbers, view, site, pc, tokens,
                 remaining, lastWasColon, lines>>

\* The loop of the second call ends: return tokens.
otherReturn ==
  /\ other.pc \in {"tokenizeJS", "tokenizeHTML", "tokenizeJSON"}
  /\ Len(other.remaining) = 0
  /\ other' = [other EXCEPT !.pc = "returned"]
  /\ UNCHANGED <<code, language, filename, showLineNumbers, view, site, pc, tokens,
                 remaining, lastWasColon, lines>>

NextInterleaved ==
  \/ Next
  \/ otherTokenize
  \/ otherIterate
  \/ otherReturn

SpecInterleaved == InitInterleaved /\ [][NextInterleaved]_vars

----------------------------------------------------------------------------
(* Vocabulary of the properties.                                           *)

\* Concatenation of the contents of a token list, in order.
RECURSIVE Flatten(_)
Flatten(toks) == IF toks = <<>> THEN <<>> ELSE Head(toks).content \o Flatten(Tail(toks))

\* Sum of the content lengths of a token list.
RECURSIVE SumLen(_)
SumLen(toks) == IF toks = <<>> THEN 0 ELSE Len(Head(toks).content) + SumLen(Tail(toks))

\* Number of newline characters of a string.
Newlines(s) == Cardinality({i \in DOMAIN s : s[i] = "\n"})

\* The line groups joined with a newline between groups.
RECURSIVE JoinLines(_)
JoinLines(ls) ==
  IF Len(ls) = 1 THEN Flatten(ls[1])
  ELSE Flatten(Head(ls)) \o <<"\n">> \o JoinLines(Tail(ls))

\* The call has returned its token list.
Returned == pc \in {"returned", "rendered"}

InLoop == pc \in {"tokenizeJS", "tokenizeHTML", "tokenizeJSON"}

IsJS == language \in {"typescript", "javascript"}

----------------------------------------------------------------------------
(* Losslessness                                                            *)

\* C1: markup lexer losslessness: the contents of the tokens tokenizeHTML
\* returns, concatenated in order, are the source, and their lengths sum to
\* the length of the source.
C1_MarkupLossless ==
  (language = "html" /\ Returned) =>
    /\ Flatten(tokens) = code
    /\ SumLen(tokens) = Len(code)

\* C2: in tokenizeJS and tokenizeJSON, at every iteration the tokens emitted
\* so far followed by the remaining suffix are the source, so the returned
\* tokens concatenate to the source.
C2_LoopLossless ==
  (IsJS \/ language = "json") =>
    /\ InLoop => Flatten(tokens) \o remaining = code
    /\ Returned => Flatten(tokens) = code

C2_Witness ==
  /\ language = "json"
  /\ pc = "tokenizeJSON"
  /\ Len(tokens) = 2
  /\ tokens[1].type = "property"
  /\ Len(remaining) > 0

----------------------------------------------------------------------------
(* Termination                                                             *)

\* C3 as stated: every loop iteration of the three lexers strictly shortens
\* the remaining input.
C3_EveryIterationShortens ==
  [][(InLoop /\ Len(remaining) > 0) => Len(remaining') < Len(remaining)]_vars

\* C3 as amended: every loop iteration either strictly shortens the remaining
\* input or is the markup lexer's plain-text fallback with no later "<",
\* which pushes the whole remainder as one plain token and leaves the loop
\* by break without assigning remaining; and with nothing remaining the
\* lexer returns its tokens.  The length of remaining therefore bounds the
\* iterations left, and no step leads anywhere but to the next iteration or
\* to the return.
C3_ShortensOrBreaks ==
  [][InLoop =>
       IF Len(remaining) > 0
       THEN \/ /\ Len(remaining') < Len(remaining)
               /\ pc' = pc
            \/ /\ pc = "tokenizeHTML"
               /\ pc' = "returned"
               /\ IndexOfFrom(remaining, <<"<">>, 1) = 0
               /\ tokens' = Append(tokens, Token("plain", remaining))
               /\ remaining' = remaining
       ELSE pc' = "returned" /\ tokens' = tokens]_vars

\* An unbalanced tag tail with no later "<": the fallback pushed the whole
\* remainder and left the loop by break.
C3_Witness ==
  /\ language = "html"
  /\ pc = "returned"
  /\ Len(remaining) > 0
  /\ tokens[Len(tokens)] = Token("plain", remaining)
  /\ Len(tokens) > 1

----------------------------------------------------------------------------
(* Token model                                                             *)

\* C4: no token produced by tokenizeJS, tokenizeHTML or tokenizeJSON has
\* empty content.
C4_NoEmptyToken ==
  language \in SupportedLanguage =>
    \A i \in DOMAIN tokens : tokens[i].content # <<>>

C4_Witness ==
  /\ language = "html"
  /\ pc = "returned"
  /\ \E i \in DOMAIN tokens : tokens[i].type = "attribute"
  /\ \E i \in DOMAIN tokens : tokens[i].type = "tag"

----------------------------------------------------------------------------
(* Markup tags and attributes                                              *)

\* C5: for a tag <name attr="value" bare> the token stream of tokenizeHTML
\* contains, in order, a tag token name, an attribute token attr, an operator
\* token =, a string token "value" with its quotes, and an attribute token
\* whose content is exactly the bare name, not followed by an operator or
\* string token.
C5_TagAttributeSplit ==
  \A n \in TagNames, a \in AttrNames, v \in AttrValues, b \in BareNames :
    (language = "html" /\ Returned /\ code = TagForm(n, a, v, b)) =>
      \E i, j, k, l, m \in DOMAIN tokens :
        /\ i < j /\ j < k /\ k < l /\ l < m
        /\ tokens[i] = Token("tag", n)
        /\ tokens[j] = Token("attribute", a)
        /\ tokens[k] = Token("operator", <<"=">>)
        /\ tokens[l] = Token("string", <<"\"">> \o v \o <<"\"">>)
        /\ tokens[m] = Token("attribute", b)
        /\ m < Len(tokens) => tokens[m + 1].type \notin {"operator", "string"}

----------------------------------------------------------------------------
(* Data keys and values                                                    *)

\* The source text that follows token i of the returned stream.
RestAfter(i) == Flatten(SubSeq(tokens, i + 1, Len(tokens)))

\* C6: in the data lexer every double-quoted string token is a property if
\* and only if the next non-whitespace character after it is ":", whatever
\* token precedes it.
C6_PropertyIffColonFollows ==
  (language = "json" /\ Returned) =>
    \A i \in DOMAIN tokens :
      tokens[i].type \in {"string", "property"} =>
        (tokens[i].type = "property" <=> StartsWith(TrimStart(RestAfter(i)), <<":">>))

\* C7: for a source { key : value } with double-quoted key and value and any
\* whitespace, or none, on either side of the colon, the key's token is a
\* property and the value's token is a string.
C7_KeyValue ==
  (language = "json" /\ Returned /\ code \in KeyValueSources) =>
    \A k \in QuotedStrings, g1 \in Gaps, g2 \in Gaps, v \in QuotedStrings :
      code = KeyValueForm(k, g1, g2, v) =>
        /\ tokens[2] = Token("property", k)
        /\ tokens[Len(tokens) - 1] = Token("string", v)
        /\ Len(tokens) = 5 + (IF g1 = <<>> THEN 0 ELSE 1) + (IF g2 = <<>> THEN 0 ELSE 1)

\* Whitespace on both sides of the colon, and a key that itself holds an
\* escaped quote and a colon.
C7_Witness ==
  /\ language = "json"
  /\ pc = "returned"
  /\ code = KeyValueForm(<<"\"", "a", "\\", "\"", ":", "\"">>, <<" ">>, <<"\n", " ">>,
                         <<"\"", "a", "\"">>)
  /\ tokens[2].type = "property"
  /\ tokens[6].type = "string"

----------------------------------------------------------------------------
(* Keywords                                                                *)

\* The whole text matches [a-zA-Z_$][a-zA-Z0-9_$]*.
IsIdentifier(s) ==
  /\ Len(s) > 0
  /\ s[1] \in IdentStart
  /\ \A i \in 2..Len(s) : s[i] \in IdentPart

\* The character that follows token i: the first of the next token, or of
\* the remaining input after the last token.
CharAfter(i) ==
  IF i < Len(tokens) THEN At(tokens[i + 1].content, 1)
  ELSE IF pc = "tokenizeJS" THEN At(remaining, 1)
  ELSE ""

\* C8: in tokenizeJS an identifier token runs to the last identifier
\* character and is a keyword if and only if its whole text is a member of
\* the keyword set, otherwise plain; only identifier tokens are keywords;
\* "const x = 1;" gives keyword, plain, number, operator and punctuation as
\* stated, and "constant" and "Const" are plain.
C8_KeywordClassification ==
  IsJS =>
    /\ \A i \in DOMAIN tokens :
         /\ IsIdentifier(tokens[i].content) =>
              /\ tokens[i].type = (IF tokens[i].content \in keywords THEN "keyword" ELSE "plain")
              /\ CharAfter(i) \notin IdentPart
         /\ tokens[i].type = "keyword" => IsIdentifier(tokens[i].content)
    /\ (Returned /\ code = <<"c","o","n","s","t"," ","x"," ","="," ","1",";">>) =>
         tokens = << Token("keyword", <<"c","o","n","s","t">>), Token("plain", <<" ">>),
                     Token("plain", <<"x">>), Token("plain", <<" ">>),
                     Token("operator", <<"=">>), Token("plain", <<" ">>),
                     Token("number", <<"1">>), Token("punctuation", <<";">>) >>
    /\ (Returned /\ code = <<"c","o","n","s","t","a","n","t">>) =>
         tokens = <<Token("plain", code)>>
    /\ (Returned /\ code = <<"C","o","n","s","t">>) =>
         tokens = <<Token("plain", code)>>

C8_Witness ==
  /\ language = "typescript"
  /\ pc = "returned"
  /\ code = <<"c","o","n","s","t"," ","x"," ","="," ","1",";">>
  /\ tokens[1].type = "keyword"
  /\ tokens[3].type = "plain"

----------------------------------------------------------------------------
(* Lines and dispatch                                                      *)

\* C9: for every source with N newlines and each declared language, the lines
\* memo produces N+1 line groups, and the groups' texts joined with a newline
\* between groups are the source.
C9_LineRoundTrip ==
  (language \in SupportedLanguage /\ pc = "rendered") =>
    /\ Len(lines) = Newlines(code) + 1
    /\ JoinLines(lines) = code

\* C10: with a language tag other than typescript, javascript, html or json,
\* tokenize runs no lexer and returns exactly one token, of type plain, whose
\* content is the entire source, the empty source included.
C10_UnknownLanguageFallback ==
  language \notin SupportedLanguage =>
    /\ ~InLoop
    /\ Returned => tokens = <<Token("plain", code)>>

\* The empty source under an unknown tag: one plain token with empty content.
C10_Witness ==
  /\ language = "css"
  /\ pc = "returned"
  /\ code = <<>>
  /\ Len(tokens) = 1
  /\ tokens[1].type = "plain"

----------------------------------------------------------------------------
(* Dispatch                                                                *)

\* C11: for every source, tokenize with tag typescript and with tag
\* javascript returns exactly what tokenizeJS returns for the source, with
\* tag html what tokenizeHTML returns, and with tag json what tokenizeJSON
\* returns.
C11_DispatcherMapping ==
  Returned =>
    /\ IsJS => tokens = runJS(code)
    /\ language = "html" => tokens = runHTML(code)
    /\ language = "json" => tokens = runJSON(code, FALSE)

\* A source the three lexers tokenize differently, returned under tag html.
C11_Witness ==
  /\ language = "html"
  /\ pc = "returned"
  /\ code = <<"<", "a", ">">>
  /\ tokens # runJS(code)
  /\ tokens # runJSON(code, FALSE)

\* ---------------------------------------------------------------------------
\* Calls of tokenize: repeated and interleaved
\* ---------------------------------------------------------------------------

\* C12: whatever calls came before it, a call of tokenize returns the token
\* sequence that is a function of its (source, language) pair alone, so two
\* calls on the same pair return identical sequences; every call enters its
\* loop with the cursor at the start of its source, no token yet, and, in
\* tokenizeJSON, the colon flag false.
C12_Determinism ==
  /\ Returned => tokens = tokenizeOf(code, language)
  /\ (InLoop /\ tokens = <<>>) =>
       /\ remaining = code
       /\ pc = "tokenizeJSON" => ~lastWasColon

\* A later call on "a": has returned: the call before it was on : and ended
\* with the colon flag true, and its line groups are still in place.
C12_Witness ==
  /\ pc = "returned"
  /\ language = "json"
  /\ code = <<"\"", "a", "\"", ":">>
  /\ tokens = <<Token("property", <<"\"", "a", "\"">>), Token("punctuation", <<":">>)>>
  /\ lines = << <<Token("punctuation", <<":">>)>> >>

\* C13: with the loop steps of two calls of tokenize interleaved in every
\* order, each call returns the token sequence it returns when run alone.
C13_Independence ==
  /\ Returned => tokens = tokenizeOf(code, language)
  /\ other.pc = "returned" => other.tokens = tokenizeOf(other.code, other.language)

\* Both calls are in the middle of the loop of tokenizeJSON: the first has just
\* pushed : and holds a true colon flag, the second has pushed the property
\* "a" and has its colon still to read.
C13_Witness ==
  /\ pc = "tokenizeJSON"
  /\ code = <<":", " ", "\"", "a", "\"">>
  /\ Len(tokens) = 1
  /\ lastWasColon
  /\ other.pc = "tokenizeJSON"
  /\ other.tokens = <<Token("property", <<"\"", "a", "\"">>)>>
  /\ other.remaining = <<":">>
  /\ ~other.lastWasColon

\* ---------------------------------------------------------------------------
\* Renderer options
\* ---------------------------------------------------------------------------

\* C14: for every filename (absent or a string) and every showLineNumbers
\* (true, false or omitted), the tokens and the line groups of a render are
\* those determined by (code, language) alone.
C14_OptionsFrame ==
  /\ Returned => tokens = tokenizeOf(code, language)
  /\ pc = "rendered" => lines = toLines(tokenizeOf(code, language))

\* A two-line source rendered with a filename and with line numbers on.
C14_Witness ==
  /\ pc = "rendered"
  /\ filename = "a.ts"
  /\ showLineNumbers = "true"
  /\ language = "typescript"
  /\ code = <<"a", "\n", "1">>
  /\ Len(lines) = 2

\* ---------------------------------------------------------------------------
\* The lines memo on arbitrary token lists
\* ---------------------------------------------------------------------------

\* C15: for every token list, the empty list and tokens of empty text
\* included, the lines memo produces 1 + (number of newlines in all token
\* texts) line groups, and the texts of the groups joined with a newline
\* between groups are the concatenation of the token texts.
C15_SegmenterRoundTrip ==
  pc = "rendered" =>
    /\ Len(lines) = 1 + Newlines(Flatten(tokens))
    /\ JoinLines(lines) = Flatten(tokens)

\* A token of empty text followed by a token of two newlines: three groups.
C15_Witness ==
  /\ pc = "rendered"
  /\ Len(tokens) = 2
  /\ tokens[1].content = <<>>
  /\ tokens[2].content = <<"\n", "\n">>
  /\ Len(lines) = 3

\* The line groups after the first i tokens have been through the outer loop.
LinesAfter(i) == toLines(SubSeq(tokens, 1, i))

\* What a fragment of text p and kind type adds to a group: one token, or
\* nothing when the fragment is empty.
Stored(type, p) == IF p # <<>> THEN <<Token(type, p)>> ELSE <<>>

\* The j-th of the fragments of text s: the characters between its (j-1)-th
\* and its j-th newline.
NewlineAt(s, j) ==
  IF j = 0 THEN 0
  ELSE IF j > Newlines(s) THEN Len(s) + 1
  ELSE CHOOSE p \in DOMAIN s :
         /\ s[p] = "\n"
         /\ Cardinality({q \in 1..p : s[q] = "\n"}) = j
Fragment(s, j) == SubSeq(s, NewlineAt(s, j - 1) + 1, NewlineAt(s, j) - 1)

\* C16: a token whose text has k newlines is cut into k+1 fragments (the
\* texts between its newlines), each stored with the token's type; the first
\* is appended to the current (last) line group and after each newline a new
\* group is started that receives the next fragment; the groups before the
\* current one are left as they were. (A fragment of no characters stores no
\* token.)
C16_FragmentsOfToken ==
  pc = "rendered" =>
    /\ lines = LinesAfter(Len(tokens))
    /\ \A i \in DOMAIN tokens :
         LET k      == Newlines(tokens[i].content)
             before == LinesAfter(i - 1)
             after  == LinesAfter(i)
             cur    == Len(before)
         IN /\ Len(after) = cur + k
            /\ \A g \in 1..(cur - 1) : after[g] = before[g]
            /\ after[cur] =
                 before[cur] \o Stored(tokens[i].type, Fragment(tokens[i].content, 1))
            /\ \A j \in 2..(k + 1) :
                 after[cur + j - 1] =
                   Stored(tokens[i].type, Fragment(tokens[i].content, j))

\* The comment token a-newline-a after a plain token a: its first fragment
\* joins the group of the plain token, its second opens the next group.
C16_Witness ==
  /\ pc = "rendered"
  /\ tokens = <<Token("plain", <<"a">>), Token("comment", <<"a", "\n", "a">>)>>
  /\ lines = << <<Token("plain", <<"a">>), Token("comment", <<"a">>)>>,
               <<Token("comment", <<"a">>)>> >>

\* The stored tokens of all groups, in order.
RECURSIVE AllStored(_)
AllStored(ls) == IF ls = <<>> THEN <<>> ELSE Head(ls) \o AllStored(Tail(ls))

\* The non-empty fragments of token tok from its j-th on, as tokens of its type.
RECURSIVE StoredFrom(_, _)
StoredFrom(tok, j) ==
  IF j > Newlines(tok.content) + 1 THEN <<>>
  ELSE Stored(tok.type, Fragment(tok.content, j)) \o StoredFrom(tok, j + 1)

\* The non-empty fragments of all tokens of toks, in order.
RECURSIVE StoredOf(_)
StoredOf(toks) ==
  IF toks = <<>> THEN <<>> ELSE StoredFrom(Head(toks), 1) \o StoredOf(Tail(toks))

\* C17: every token stored in a line group has a non-empty text without a
\* newline and the type of the token it was split from (the stored tokens are,
\* in order, the non-empty fragments of the input tokens with their types);
\* there is one group for every line of the concatenated text, holding that
\* line's characters, so a line of no characters is present as an empty group.
C17_LineGroupInvariant ==
  pc = "rendered" =>
    /\ \A g \in DOMAIN lines : \A f \in DOMAIN lines[g] :
         /\ lines[g][f].content # <<>>
         /\ \A p \in DOMAIN lines[g][f].content : lines[g][f].content[p] # "\n"
    /\ AllStored(lines) = StoredOf(tokens)
    /\ Len(lines) = Newlines(Flatten(tokens)) + 1
    /\ \A g \in DOMAIN lines :
         /\ Flatten(lines[g]) = Fragment(Flatten(tokens), g)
         /\ Fragment(Flatten(tokens), g) = <<>> => lines[g] = <<>>

\* A token that is one newline, then a token ending in two newlines: a leading
\* empty line, a line a, and two empty lines, all four present.
C17_Witness ==
  /\ pc = "rendered"
  /\ tokens = <<Token("plain", <<"\n">>), Token("comment", <<"a", "\n", "\n">>)>>
  /\ lines = << <<>>, <<Token("comment", <<"a">>)>>, <<>>, <<>> >>

\* ---------------------------------------------------------------------------
\* Steps of the lexers
\* ---------------------------------------------------------------------------

\* C18: a step of tokenizeHTML that pushes an attribute token pushes it
\* together with an operator token =, only where the attribute name is
\* followed in the remaining input by = with no character between, and the
\* texts of the two tokens are exactly the characters the step consumes.
C18_AttributeStep ==
  [][(/\ pc = "tokenizeHTML"
      /\ Len(tokens') > Len(tokens)
      /\ tokens'[Len(tokens) + 1].type = "attribute")
     =>
     LET name     == tokens'[Len(tokens) + 1].content
         consumed == SubSeq(remaining, 1, Len(remaining) - Len(remaining'))
     IN /\ Len(tokens') = Len(tokens) + 2
        /\ tokens'[Len(tokens) + 2] = Token("operator", <<"=">>)
        /\ StartsWith(remaining, name \o <<"=">>)
        /\ name \o <<"=">> = consumed]_vars

\* The step from the current state is a loop iteration of tokenizeJSON.
StepJSON == pc = "tokenizeJSON" /\ Len(remaining) > 0

\* The text the step consumes from remaining.
Consumed == SubSeq(remaining, 1, Len(remaining) - Len(remaining'))

\* C19: a loop iteration of tokenizeJSON that pushes a whitespace token leaves
\* the colon flag as it was; a flag that was true before the whitespace run
\* is true after it.
C19_WhitespaceKeepsFlag ==
  [][(/\ StepJSON
      /\ tokens'[Len(tokens')].type = "plain"
      /\ \A p \in DOMAIN Consumed : Consumed[p] \in Whitespace)
     => lastWasColon' = lastWasColon]_vars

\* The step takes the single-character fallback of tokenizeJSON: no pattern
\* pushes a plain token other than whitespace.
FallbackJSON ==
  /\ tokens'[Len(tokens')].type = "plain"
  /\ Consumed[1] \notin Whitespace

\* C20: after a loop iteration of tokenizeJSON in which a pattern matches
\* (string, number, keyword, punctuation or whitespace) the colon flag is true
\* exactly if the matched text is ":"; an iteration that takes the
\* single-character fallback leaves the flag as it was.
C20_FlagUpdate ==
  [][StepJSON =>
       IF FallbackJSON
       THEN /\ Len(Consumed) = 1
            /\ lastWasColon' = lastWasColon
       ELSE lastWasColon' = (Consumed = <<":">>)]_vars

\* After : and the unmatched character a: the fallback has kept the flag true.
C20_Witness ==
  /\ pc = "tokenizeJSON"
  /\ code = <<":", "a">>
  /\ remaining = <<>>
  /\ tokens = <<Token("punctuation", <<":">>), Token("plain", <<"a">>)>>
  /\ lastWasColon

\* ---------------------------------------------------------------------------
\* Keywords of tokenizeJSON
\* ---------------------------------------------------------------------------

\* C21: in a stream returned by tokenizeJSON a keyword token has the text
\* true, false or null and is a whole word: no letter follows it in the
\* source, so a longer word that begins with one of the three yields no
\* keyword token.
C21_KeywordWholeWord ==
  (language = "json" /\ Returned) =>
    \A i \in DOMAIN tokens :
      tokens[i].type = "keyword" =>
        /\ tokens[i].content \in {<<"t", "r", "u", "e">>, <<"f", "a", "l", "s", "e">>,
                                  <<"n", "u", "l", "l">>}
        /\ At(RestAfter(i), 1) \notin Letter

\* ---------------------------------------------------------------------------
\* Markup text and tag structure
\* ---------------------------------------------------------------------------

\* Position of the first < of the remaining input, 0 when it has none.
NextTag ==
  IF \E p \in DOMAIN remaining : remaining[p] = "<"
  THEN CHOOSE p \in DOMAIN remaining :
         /\ remaining[p] = "<"
         /\ \A q \in 1..(p - 1) : remaining[q] # "<"
  ELSE 0

\* C22: a loop iteration of tokenizeHTML at which no pattern matches pushes
\* one plain token: the characters before the next < when a later < exists,
\* the whole remainder when no < is left, and the single character < when the
\* cursor is at <. In every stream of tokenizeHTML a plain token contains <
\* only if its text is exactly <.
C22_TextFallback ==
  [][/\ (/\ pc = "tokenizeHTML"
         /\ Len(remaining) > 0
         /\ FirstMatch(patternsHTML(remaining)) = 0)
        =>
        /\ NextTag = 0 =>
             /\ tokens' = Append(tokens, Token("plain", remaining))
             /\ pc' = "returned"
        /\ NextTag = 1 =>
             /\ tokens' = Append(tokens, Token("plain", <<"<">>))
             /\ remaining' = Tail(remaining)
        /\ NextTag > 1 =>
             /\ tokens' = Append(tokens, Token("plain", SubSeq(remaining, 1, NextTag - 1)))
             /\ remaining' = SubSeq(remaining, NextTag, Len(remaining))
     /\ language = "html" =>
          \A i \in DOMAIN tokens' :
            (/\ tokens'[i].type = "plain"
             /\ \E p \in DOMAIN tokens'[i].content : tokens'[i].content[p] = "<")
            => tokens'[i].content = <<"<">>]_vars

\* Text a, then a < no pattern matches: the fallback has pushed the text
\* before the <, and then the < alone.
C22_Witness ==
  /\ language = "html"
  /\ code = <<"a", "<">>
  /\ pc = "tokenizeHTML"
  /\ tokens = <<Token("plain", <<"a">>), Token("plain", <<"<">>)>>
  /\ remaining = <<>>

\* C23: in every token stream of tokenizeHTML each tag token is immediately
\* preceded by a punctuation token < or </, and each attribute token is
\* immediately followed by an operator token =.
C23_TagAndAttributePairs ==
  language = "html" =>
    \A i \in DOMAIN tokens :
      /\ tokens[i].type = "tag" =>
           /\ i > 1
           /\ tokens[i - 1] \in {Token("punctuation", <<"<">>),
                                 Token("punctuation", <<"<", "/">>)}
      /\ tokens[i].type = "attribute" =>
           /\ i < Len(tokens)
           /\ tokens[i + 1] = Token("operator", <<"=">>)

\* <a b='c'/>d</a> returned: an opening tag, an attribute and a closing tag.
C23_Witness ==
  /\ language = "html"
  /\ pc = "returned"
  /\ code = <<"<","a"," ","b","=","'","c","'","/",">","d","<","/","a",">">>
  /\ tokens[1] = Token("punctuation", <<"<">>)
  /\ tokens[2] = Token("tag", <<"a">>)
  /\ tokens[4] = Token("attribute", <<"b">>)
  /\ tokens[5] = Token("operator", <<"=">>)
  /\ \E i \in DOMAIN tokens :
       /\ tokens[i] = Token("punctuation", <<"<", "/">>)
       /\ tokens[i + 1] = Token("tag", <<"a">>)

\* ---------------------------------------------------------------------------
\* Operators, comments and strings of tokenizeJS
\* ---------------------------------------------------------------------------

\* The multi-character operators.
ListedOperators ==
  { <<"=","=","=">>, <<"!","=","=">>, <<"=","=">>, <<"!","=">>, <<"<","=">>,
    <<">","=">>, <<"&","&">>, <<"|","|">>, <<"=",">">>, <<".",".",".">>,
    <<"?","?">>, <<"?",".">>, <<"+","+">>, <<"-","-">> }

\* The longest multi-character operator the remaining input starts with.
LongestListed ==
  CHOOSE o \in ListedOperators :
    /\ StartsWith(remaining, o)
    /\ \A o2 \in ListedOperators : StartsWith(remaining, o2) => Len(o2) <= Len(o)

\* C24: a loop iteration of tokenizeJS whose cursor is at a multi-character
\* operator, where no comment, string or number pattern matches, pushes the
\* longest listed operator at the cursor as one operator token and consumes
\* exactly it (=== is not == then =, ... is not three punctuation tokens).
C24_LongestOperator ==
  [][(/\ pc = "tokenizeJS"
      /\ \E o \in ListedOperators : StartsWith(remaining, o)
      /\ \A k \in 1..9 : patternsJS(remaining)[k].n <= 0)
     =>
     /\ tokens' = Append(tokens, Token("operator", LongestListed))
     /\ remaining' = SubSeq(remaining, Len(LongestListed) + 1, Len(remaining))]_vars

\* a===1 returned: === is one operator token.
C24_Witness ==
  /\ pc = "returned"
  /\ code = <<"a", "=", "=", "=", "1">>
  /\ tokens = <<Token("plain", <<"a">>), Token("operator", <<"=", "=", "=">>),
                Token("number", <<"1">>)>>

\* The text c has a */ that starts at position p.
ClosesAt(c, p) == p >= 1 /\ p < Len(c) /\ c[p] = "*" /\ c[p + 1] = "/"

\* // up to, not including, a newline.
IsLineComment(c) ==
  /\ StartsWith(c, <<"/", "/">>)
  /\ \A p \in DOMAIN c : c[p] # "\n"

\* /* up to the first */ that follows the opening.
IsBlockComment(c) ==
  /\ StartsWith(c, <<"/", "*">>)
  /\ Len(c) >= 4
  /\ ClosesAt(c, Len(c) - 1)
  /\ \A p \in 3..(Len(c) - 2) : ~ClosesAt(c, p)

\* C25: every comment token of tokenizeJS is a line comment (// and no
\* newline) or a block comment (/* to the first */ after the opening); at a /*
\* with no */ after it no comment token is pushed; at a terminated
\* double-quoted literal the whole literal is pushed as one string token, so a
\* // or /* inside it starts no comment.
C25_CommentTokens ==
  [][/\ IsJS =>
          \A i \in DOMAIN tokens' :
            tokens'[i].type = "comment" =>
              IsLineComment(tokens'[i].content) \/ IsBlockComment(tokens'[i].content)
     /\ (/\ pc = "tokenizeJS"
         /\ StartsWith(remaining, <<"/", "*">>)
         /\ \A p \in 3..Len(remaining) : ~ClosesAt(remaining, p))
        => /\ Len(tokens') = Len(tokens) + 1
           /\ tokens'[Len(tokens')].type # "comment"
     /\ (/\ pc = "tokenizeJS"
         /\ reQuoted(remaining, "\"") > 0)
        => /\ tokens' = Append(tokens, Token("string", SliceTo(remaining, reQuoted(remaining, "\""))))
           /\ remaining' = Slice(remaining, reQuoted(remaining, "\""))]_vars

\* "/*"*/ returned: the /* inside the string starts no comment, and the */
\* after it is two operators.
C25_Witness ==
  /\ pc = "returned"
  /\ code = <<"\"", "/", "*", "\"", "*", "/">>
  /\ tokens = <<Token("string", <<"\"", "/", "*", "\"">>), Token("operator", <<"*">>),
                Token("operator", <<"/">>)>>

\* The character at position p of the remaining input is preceded by an
\* escaping backslash: an odd number of backslashes ends just before it.
RECURSIVE BackslashesBefore(_)
BackslashesBefore(p) ==
  IF p > 2 /\ remaining[p - 1] = "\\" THEN 1 + BackslashesBefore(p - 1) ELSE 0
Escaped(p) == BackslashesBefore(p) % 2 = 1

\* Positions after the opening delimiter that hold the same delimiter, not
\* preceded by an escaping backslash.
Closers ==
  {p \in 2..Len(remaining) : remaining[p] = remaining[1] /\ ~Escaped(p)}

\* C26: a loop iteration of tokenizeJS whose cursor is at a double quote,
\* single quote or back-quote that has a later matching delimiter not preceded
\* by an escaping backslash pushes exactly one string token, from the opening
\* delimiter to the first such delimiter (escaped delimiters and ${...}
\* inside it included), and consumes it.
C26_StringLiteral ==
  [][(/\ pc = "tokenizeJS"
      /\ Len(remaining) > 0
      /\ remaining[1] \in {"\"", "'", Backquote}
      /\ Closers # {})
     =>
     LET close == CHOOSE p \in Closers : \A q \in Closers : p <= q
     IN /\ tokens' = Append(tokens, Token("string", SubSeq(remaining, 1, close)))
        /\ remaining' = SubSeq(remaining, close + 1, Len(remaining))]_vars

\* ---------------------------------------------------------------------------
\* The rendered rows
\* ---------------------------------------------------------------------------

\* C27: with showLineNumbers true the rows of a block of L line groups show
\* the numbers 1, 2, ..., L in order, one per row; with showLineNumbers false
\* or omitted no row shows a number.
C27_LineNumbers ==
  pc = "shown" =>
    /\ Len(view.rows) = Len(lines)
    /\ \A r \in DOMAIN view.rows :
         view.rows[r].number = IF showLineNumbers = "true" THEN <<r>> ELSE <<>>

\* A source of four lines shown with line numbers: the fourth row shows 4.
C27_Witness ==
  /\ pc = "shown"
  /\ showLineNumbers = "true"
  /\ code = <<"\n", "a", "\n", "\n">>
  /\ Len(view.rows) = 4
  /\ view.rows[1].number = <<1>>
  /\ view.rows[4].number = <<4>>

\* C28: for every source, the empty one included, and every language tag,
\* an unrecognized one included, the element has at least one row and every
\* row has at least one span; the row of an empty line group is the single
\* non-breaking-space placeholder.
C28_NeverEmpty ==
  pc = "shown" =>
    /\ Len(view.rows) >= 1
    /\ \A r \in DOMAIN view.rows :
         /\ Len(view.rows[r].spans) >= 1
         /\ lines[r] = <<>> => view.rows[r].spans = <<Placeholder>>

\* The empty source under an unrecognized tag: one row, the placeholder.
C28_Witness ==
  /\ pc = "shown"
  /\ language = "css"
  /\ code = <<>>
  /\ lines = << <<>> >>
  /\ view.rows = <<[number |-> <<>>, spans |-> <<Placeholder>>]>>

\* ---------------------------------------------------------------------------
\* Navigation
\* ---------------------------------------------------------------------------

\* The pathname is the href of item i, with or without one trailing slash.
PageOf(i) ==
  site.pathname \in {navigationItems[i].href, navigationItems[i].href \o <<"/">>}

\* C29: PageNavigation rendered without props, on the path of item i with or
\* without a trailing slash, has item i-1 as previous (none on the first
\* page) and item i+1 as next (none on the last page): the first page shows
\* only Next, the last only Previous, the others both; on a path of no item
\* it has neither and returns null.
C29_SequentialNavigation ==
  (/\ site.pageNav.state # "pending"
   /\ site.previousPage = Undefined
   /\ site.nextPage = Undefined)
  =>
  /\ \A i \in DOMAIN navigationItems :
       PageOf(i) =>
         /\ site.pageNav.state = "nav"
         /\ site.pageNav.previous =
              IF i = 1 THEN Undefined ELSE navigationItems[i - 1]
         /\ site.pageNav.next =
              IF i = Len(navigationItems) THEN Undefined ELSE navigationItems[i + 1]
         /\ getPreviousNavItem(site.pathname) = site.pageNav.previous
         /\ getNextNavItem(site.pathname) = site.pageNav.next
  /\ (\A i \in DOMAIN navigationItems : ~PageOf(i)) =>
       /\ getPreviousNavItem(site.pathname) = Undefined
       /\ getNextNavItem(site.pathname) = Undefined
       /\ site.pageNav.state = "null"

\* /core-concepts/ (trailing slash): Previous is Introduction, Next is
\* JavaScript API.
C29_Witness ==
  /\ site.pathname = <<"/", "core-concepts", "/">>
  /\ site.previousPage = Undefined
  /\ site.nextPage = Undefined
  /\ site.pageNav.state = "nav"
  /\ site.pageNav.previous.title = "Introduction"
  /\ site.pageNav.next.title = "JavaScript API"

\* C30: for every pathname, with or without a trailing slash, the items the
\* sidebar NavigationList marks active are exactly the item getNavItem
\* returns for the pathname: one active item on the path of a page, none
\* otherwise.
C30_ActiveItem ==
  site.sidebar # <<>> =>
    \A i \in DOMAIN navigationItems :
      site.sidebar[i] = (getNavItem(site.pathname) = navigationItems[i])

====
